---- MODULE Spec2Model ----
(***************************************************************************)
(* Model of the library-search ingest pipeline:                            *)
(*   ingest/epub_to_json.py          EPUB container -> per-book JSON       *)
(*   ingest/convert_json_to_ndjson.py per-book JSON -> bulk NDJSON streams *)
(*   scripts/escli.py                bulk replay and embedding merge       *)
(* Every component has its own specification over the shared variables;    *)
(* the variables of the components a specification does not run stay at    *)
(* their idle values.                                                      *)
(***************************************************************************)
EXTENDS Integers, Sequences, FiniteSets, TLC

VARIABLES
    \* convert_json_to_ndjson.py main / process_json_objects
    cMode,          \* "local" or "s3" (args.s3)
    cFiles,         \* the artifacts the input location lists, in listing order
    cPos,           \* how many of them the for loop has consumed
    cPc,            \* "loop", "done" (outputs written), "indexed", "crashed"
    cRun,           \* number of the ingestion run (1-based)
    actions,        \* the list to_bulk_actions returned in the last iteration
    books_lines,    \* process_json_objects' accumulator for the books stream
    content_lines,  \* process_json_objects' accumulator for the content stream
    out_books,      \* books.ndjson as written (a sequence of lines)
    out_content,    \* book_content.ndjson as written
    store,          \* the books index the books stream is replayed into
    \* epub_to_json.py main
    eMode,          \* "local" or "s3" (args.s3)
    eInputs,        \* the files the input location lists, in listing order
    ePos,           \* how many of them the for loop has consumed
    ePc,            \* "loop" or "done"
    data,           \* the dict read_epub returned in the last iteration
    parsed,         \* the output location: JSON document by output name
    \* escli.py main, bulk_file, embed_from_ndjson, _bulk_post
    cmd,            \* args.cmd: "bulk", "embed" (embed-from-ndjson); "idle": not run
    args,           \* the other arguments of the run
    ndjson,         \* the lines of the NDJSON file, in file order
    nbytes,         \* len(line.encode("utf-8")) of each of them
    lpos,           \* how many lines the for loop has consumed
    cliPc,          \* "start", "loop", "done" or "failed" (an exception left main)
    buf,            \* bulk_file's buf
    size,           \* bulk_file's size
    sent,           \* bulk_file's sent
    expect_src,     \* _iter_ndjson_docs' expect_src
    iter_meta,      \* _iter_ndjson_docs' meta
    to_update,      \* embed_from_ndjson's to_update
    total,          \* embed_from_ndjson's total
    yielded,        \* the (meta, src) pairs _iter_ndjson_docs has yielded
    encoded,        \* the texts model.encode has been called with
    posted,         \* the request bodies POSTed to /_bulk, in order
    resp,           \* the response to the last of them
    raised          \* what the last _bulk_post raised

convVars == <<cMode, cFiles, cPos, cPc, cRun, actions, books_lines,
              content_lines, out_books, out_content, store>>

epubVars == <<eMode, eInputs, ePos, ePc, data, parsed>>

cliVars == <<cmd, args, ndjson, nbytes, lpos, cliPc, buf, size, sent, expect_src,
             iter_meta, to_update, total, yielded, encoded, posted, resp, raised>>

vars == <<convVars, epubVars, cliVars>>

(***************************************************************************)
(* Python values.                                                          *)
(***************************************************************************)
\* A Python str is a sequence of one-character strings: <<"b", "y">> is "by".
\* Python's None is a one-element sequence that is no such string.
None == <<"None">>

\* dict.get(key, default) on a dict modelled as a function over its keys.
Get(d, k, dflt) == IF k \in DOMAIN d THEN d[k] ELSE dflt

\* bool(x) of a str or None.
Truthy(x) == x # None /\ x # <<>>

\* json.dumps: one NDJSON line holding the object; json.loads is its inverse
\* on the lines json.dumps produced and fails on anything else.
Dumps(obj) == [json |-> obj]
Loads(line) == line.json

\* Sequence helpers.
RECURSIVE Concat(_)
Concat(ss) == IF ss = <<>> THEN <<>> ELSE Head(ss) \o Concat(Tail(ss))

RECURSIVE SumSeq(_)
SumSeq(ns) == IF ns = <<>> THEN 0 ELSE Head(ns) + SumSeq(Tail(ns))

SeqsUpTo(S, n) == UNION {[1..k -> S] : k \in 0..n}

(***************************************************************************)
(* Bounds of the model.                                                    *)
(***************************************************************************)
MaxChapters == 2    \* chapters of a generated book JSON
MaxParas == 2       \* paragraphs of a generated chapter
MaxFiles == 2       \* artifacts of a generated batch
MaxRuns == 2        \* ingestion runs over the same batch

(***************************************************************************)
(* convert_json_to_ndjson.py: to_bulk_actions                              *)
(***************************************************************************)
DigitChars == <<"0", "1", "2", "3", "4", "5", "6", "7", "8", "9">>

RECURSIVE Zeros(_)
Zeros(n) == IF n <= 0 THEN <<>> ELSE <<"0">> \o Zeros(n - 1)

\* format(n, "d"): the decimal digits of n >= 0, most significant first.
RECURSIVE Decimal(_)
Decimal(n) == IF n < 10 THEN <<DigitChars[n + 1]>>
              ELSE Decimal(n \div 10) \o <<DigitChars[(n % 10) + 1]>>

\* format(seq, "06d"): decimal, zero-filled to a minimum width of 6.
Pad6(n) == LET s == Decimal(n)
           IN IF Len(s) >= 6 THEN s ELSE Zeros(6 - Len(s)) \o s

\* f"{book_json.get('book_id')}-{seq:06d}"
ChunkId(book_id, seq) == book_id \o <<"-">> \o Pad6(seq)

\* The Book summary record (book_doc).
BookDoc(bj) ==
    [book_id     |-> Get(bj, "book_id", None),
     source_uid  |-> Get(bj, "source_uid", <<>>),
     title       |-> Get(bj, "title", None),
     author      |-> Get(bj, "author", <<>>),
     publisher   |-> Get(bj, "publisher", <<>>),
     description |-> Get(bj, "description", <<>>),
     genres      |-> Get(bj, "genres", <<>>),
     linkToBook  |-> Get(bj, "linkToBook", <<>>),
     language    |-> Get(bj, "language", None),
     suggest     |-> [input |->
                        (IF Truthy(Get(bj, "title", None))
                           THEN <<Get(bj, "title", None)>> ELSE <<>>)
                        \o (IF Truthy(Get(bj, "author", None))
                              THEN <<Get(bj, "author", None)>> ELSE <<>>)]]

\* A mutant of BookAction: the action line of a book without its _id.
BookActionNoId(index_books, book_doc) ==
    Dumps([index |-> [_index |-> index_books]])

\* The action line of the Book summary: explicit _id = book_id.
BookAction(index_books, book_doc) ==
    Dumps([index |-> [_index |-> index_books, _id |-> book_doc.book_id]])

\* A mutant of SeqAtChapter: the counter restarts in every chapter.
SeqAtChapterReset(seq) == 0

\* The counter a chapter starts with: seq is set once, before the outer loop,
\* so a chapter continues where the previous one stopped.
SeqAtChapter(seq) == seq

\* The inner loop over one chapter's paragraphs, from paragraph pi (1-based
\* here, paragraph_index = pi - 1): the lines appended and the counter after.
RECURSIVE ParagraphLoop(_, _, _, _, _, _)
ParagraphLoop(bj, index_content, ch, chapter_index, pi, seq) ==
    LET paras == Get(ch, "paragraphs", <<>>)
    IN IF pi > Len(paras)
         THEN [lines |-> <<>>, seq |-> seq]
         ELSE LET doc == [book_id         |-> Get(bj, "book_id", None),
                          chunk_id        |-> ChunkId(Get(bj, "book_id", None), seq),
                          chapter         |-> Get(ch, "chapter", None),
                          chapter_index   |-> chapter_index,
                          paragraph_index |-> pi - 1,
                          text            |-> paras[pi]]
                  rest == ParagraphLoop(bj, index_content, ch, chapter_index,
                                        pi + 1, seq + 1)
              IN [lines |-> <<Dumps([index |-> [_index |-> index_content]]),
                              Dumps(doc)>> \o rest.lines,
                  seq   |-> rest.seq]

\* The outer loop over the chapters from chapter ci (1-based here,
\* chapter_index = ci - 1).
RECURSIVE ChapterLoop(_, _, _, _, _)
ChapterLoop(bj, index_content, chs, ci, seq) ==
    IF ci > Len(chs)
      THEN <<>>
      ELSE LET one == ParagraphLoop(bj, index_content, chs[ci].fields, ci - 1, 1,
                                    SeqAtChapter(seq))
           IN one.lines \o ChapterLoop(bj, index_content, chs, ci + 1, one.seq)

\* A JSON value is [type |-> "dict", fields |-> f] or [type |-> "list"];
\* .get exists on a dict only: on anything else it raises AttributeError.
IsDict(v) == v.type = "dict"

\* to_bulk_actions: [raised |-> TRUE] when an exception leaves it, else the
\* list of lines it returns.
ToBulkActions(book_json, index_books, index_content) ==
    IF ~IsDict(book_json)
      THEN [raised |-> TRUE, actions |-> <<>>]
      ELSE LET bj == book_json.fields
               chs == Get(bj, "chapters", <<>>)
           IN IF \E i \in 1..Len(chs) : ~IsDict(chs[i])
                THEN [raised |-> TRUE, actions |-> <<>>]
                ELSE [raised  |-> FALSE,
                      actions |-> <<BookAction(index_books, BookDoc(bj)),
                                    Dumps(BookDoc(bj))>>
                                  \o ChapterLoop(bj, index_content, chs, 1, 0)]

(***************************************************************************)
(* convert_json_to_ndjson.py: main, process_json_objects and the iterators *)
(***************************************************************************)
IndexBooks == "books"              \* args.index_books (default)
IndexContent == "book_content"     \* args.index_content (default)

\* The action line process_json_objects appends to books_lines: actions[i] as is.
BooksMeta(line) == line

\* The loop over range(0, len(actions), 2) from pair i (0-based): the lines each
\* stream gains.
RECURSIVE SplitActions(_, _)
SplitActions(acts, i) ==
    IF i >= Len(acts)
      THEN [books |-> <<>>, content |-> <<>>]
      ELSE LET meta == Loads(acts[i + 1])
               src  == acts[i + 2]
               idx  == meta.index._index
               rest == SplitActions(acts, i + 2)
           IN IF idx = IndexBooks
                THEN [books   |-> <<BooksMeta(acts[i + 1]), src>> \o rest.books,
                      content |-> rest.content]
                ELSE [books   |-> rest.books,
                      content |-> <<Dumps([index |-> [_index |-> IndexContent]]),
                                    src>> \o rest.content]

\* "\n".join(lines) + "\n" as the lines of the file written: an empty list
\* gives one blank line.
BlankLine == [blank |-> TRUE]
FileLines(lines) == IF lines = <<>> THEN <<BlankLine>> ELSE lines

\* The artifacts of the input location.  ext is the name's extension, valid
\* says whether the bytes are UTF-8 JSON text, data is the value they decode to.
Texts == {<<"p">>, <<"q">>}
ParaLists == SeqsUpTo(Texts, MaxParas)
ChapterValues == {[type |-> "dict", fields |-> [chapter |-> <<"c">>, paragraphs |-> ps]] :
                    ps \in ParaLists}
ChapterLists == SeqsUpTo(ChapterValues, MaxChapters)

\* What read_epub writes for a book with all metadata ...
FullBook(id, chs) ==
    [type |-> "dict",
     fields |-> [book_id |-> id, chapters |-> chs, title |-> <<"T">>,
                 author |-> <<"A">>, publisher |-> <<"P">>,
                 language |-> <<"e", "n">>, description |-> <<"D">>,
                 genres |-> <<"G">>, source_uid |-> <<"u", "-">> \o id,
                 linkToBook |-> <<"L">>]]
\* ... and for one with no structured metadata and no description fallback.
BareBook(id, chs) ==
    [type |-> "dict",
     fields |-> [book_id |-> id, chapters |-> chs, title |-> <<"s">>,
                 author |-> <<>>, publisher |-> <<>>, genres |-> <<>>,
                 source_uid |-> <<"u", "-">> \o id, linkToBook |-> <<"L">>]]
\* A JSON object one of whose chapters is a string, not an object.
OddBook(id) ==
    [type |-> "dict",
     fields |-> [book_id |-> id, title |-> <<"T">>,
                 chapters |-> <<[type |-> "dict",
                                 fields |-> [chapter |-> <<"c">>,
                                             paragraphs |-> <<<<"p">>>>]],
                                [type |-> "str"]>>]]

JsonFile(v) == [ext |-> "json", valid |-> TRUE, data |-> v]
ArrayFile == [ext |-> "json", valid |-> TRUE, data |-> [type |-> "list"]]
GarbageFile == [ext |-> "json", valid |-> FALSE, data |-> [type |-> "none"]]
OtherFile == [ext |-> "txt", valid |-> FALSE, data |-> [type |-> "none"]]
BadFiles == {JsonFile(OddBook(<<"b", "1">>)), ArrayFile, GarbageFile, OtherFile}

BookIds == {<<"b", "1">>, <<"b", "2">>}
GeneralFiles ==
    {JsonFile(FullBook(<<"b", "1">>, chs)) : chs \in ChapterLists}
    \cup {JsonFile(BareBook(<<"b", "2">>, chs)) : chs \in ChapterLists}
    \cup BadFiles

TwoChapters ==
    <<[type |-> "dict",
       fields |-> [chapter |-> <<"c">>, paragraphs |-> <<<<"p">>, <<"q">>>>]],
      [type |-> "dict",
       fields |-> [chapter |-> <<"c">>, paragraphs |-> <<<<"p">>>>]]>>
SampleFiles ==
    {JsonFile(FullBook(<<"b", "1">>, TwoChapters)),
     JsonFile(BareBook(<<"b", "2">>, <<>>))}
    \cup BadFiles

\* A batch is one arbitrary artifact, or up to MaxFiles sample artifacts.
Batches == {<<f>> : f \in GeneralFiles} \cup SeqsUpTo(SampleFiles, MaxFiles)

IsGood(f) == /\ f.ext = "json"
             /\ f.valid
             /\ ~ToBulkActions(f.data, IndexBooks, IndexContent).raised

ConvInit ==
    /\ cMode \in {"local", "s3"}
    /\ cFiles \in Batches
    /\ cPos = 0
    /\ cPc = "loop"
    /\ cRun = 1
    /\ actions = <<>>
    /\ books_lines = <<>>
    /\ content_lines = <<>>
    /\ out_books = <<>>
    /\ out_content = <<>>
    /\ store = <<>>

ConvIdle ==
    /\ cMode = "local"
    /\ cFiles = <<>>
    /\ cPos = 0
    /\ cPc = "idle"
    /\ cRun = 0
    /\ actions = <<>>
    /\ books_lines = <<>>
    /\ content_lines = <<>>
    /\ out_books = <<>>
    /\ out_content = <<>>
    /\ store = <<>>

EpubIdle ==
    /\ eMode = "local"
    /\ eInputs = <<>>
    /\ ePos = 0
    /\ ePc = "idle"
    /\ data = <<>>
    /\ parsed = <<>>

\* No response received, nothing raised.
NoResp == [status |-> 0]
NoError == [kind |-> "none"]

CliIdle ==
    /\ cmd = "idle"
    /\ args = <<>>
    /\ ndjson = <<>>
    /\ nbytes = <<>>
    /\ lpos = 0
    /\ cliPc = "idle"
    /\ buf = <<>>
    /\ size = 0
    /\ sent = 0
    /\ expect_src = FALSE
    /\ iter_meta = None
    /\ to_update = <<>>
    /\ total = 0
    /\ yielded = <<>>
    /\ encoded = <<>>
    /\ posted = <<>>
    /\ resp = NoResp
    /\ raised = NoError

CurFile == cFiles[cPos + 1]
InLoop == cPc = "loop" /\ cPos < Len(cFiles)

\* The listing yields a name that is no *.json: glob("*.json") never lists it,
\* iter_json_from_s3 continues.
IterSkipName ==
    /\ InLoop
    /\ CurFile.ext # "json"
    /\ cPos' = cPos + 1
    /\ UNCHANGED <<cMode, cFiles, cPc, cRun, actions, books_lines, content_lines,
                   out_books, out_content, store>>
    /\ UNCHANGED <<epubVars, cliVars>>

\* iter_json_from_s3: json.loads(buf.decode("utf-8")) raises, the except clause
\* prints ERROR decode and continues with the next object.
IterS3DecodeError ==
    /\ InLoop
    /\ cMode = "s3"
    /\ CurFile.ext = "json" /\ ~CurFile.valid
    /\ cPos' = cPos + 1
    /\ UNCHANGED <<cMode, cFiles, cPc, cRun, actions, books_lines, content_lines,
                   out_books, out_content, store>>
    /\ UNCHANGED <<epubVars, cliVars>>

\* iter_json_local: json.loads(f.read_text(...)) raises inside the generator;
\* nothing catches it (the try of process_json_objects is inside the for body),
\* so it leaves process_json_objects and main: no output file is written.
IterLocalDecodeError ==
    /\ InLoop
    /\ cMode = "local"
    /\ CurFile.ext = "json" /\ ~CurFile.valid
    /\ cPc' = "crashed"
    /\ UNCHANGED <<cMode, cFiles, cPos, cRun, actions, books_lines, content_lines,
                   out_books, out_content, store>>
    /\ UNCHANGED <<epubVars, cliVars>>

\* One iteration of process_json_objects whose to_bulk_actions raises: the
\* except clause prints ERROR and the loop continues.
ProcessError ==
    /\ InLoop
    /\ CurFile.ext = "json" /\ CurFile.valid
    /\ ToBulkActions(CurFile.data, IndexBooks, IndexContent).raised
    /\ cPos' = cPos + 1
    /\ UNCHANGED <<cMode, cFiles, cPc, cRun, actions, books_lines, content_lines,
                   out_books, out_content, store>>
    /\ UNCHANGED <<epubVars, cliVars>>

\* One iteration of process_json_objects that prints OK.
ProcessOk ==
    /\ InLoop
    /\ CurFile.ext = "json" /\ CurFile.valid
    /\ LET r == ToBulkActions(CurFile.data, IndexBooks, IndexContent)
       IN /\ ~r.raised
          /\ actions' = r.actions
          /\ books_lines' = books_lines \o SplitActions(r.actions, 0).books
          /\ content_lines' = content_lines \o SplitActions(r.actions, 0).content
    /\ cPos' = cPos + 1
    /\ UNCHANGED <<cMode, cFiles, cPc, cRun, out_books, out_content, store>>
    /\ UNCHANGED <<epubVars, cliVars>>

\* After the loop: both streams are written (put_object / write_text).
WriteOutputs ==
    /\ cPc = "loop" /\ cPos = Len(cFiles)
    /\ out_books' = FileLines(books_lines)
    /\ out_content' = FileLines(content_lines)
    /\ cPc' = "done"
    /\ UNCHANGED <<cMode, cFiles, cPos, cRun, actions, books_lines, content_lines,
                   store>>
    /\ UNCHANGED <<epubVars, cliVars>>

\* The books index: a sequence of [_id, _source].  An index action with an _id
\* replaces the record of that _id or adds it; without one the index assigns a
\* fresh _id.
StoreIds(st) == {st[i]._id : i \in 1..Len(st)}

StoreIndex(st, meta, src) ==
    LET given == "_id" \in DOMAIN meta.index /\ meta.index._id # None
        id == IF given THEN meta.index._id ELSE <<"auto">> \o Decimal(Len(st))
    IN IF given /\ id \in StoreIds(st)
         THEN [i \in 1..Len(st) |->
                  IF st[i]._id = id THEN [_id |-> id, _source |-> src] ELSE st[i]]
         ELSE Append(st, [_id |-> id, _source |-> src])

\* Replaying a stream's non-blank lines, pair by pair, from line i (1-based).
RECURSIVE Replay(_, _, _)
Replay(st, lines, i) ==
    IF i + 1 > Len(lines) \/ lines[i] = BlankLine
      THEN st
      ELSE Replay(StoreIndex(st, Loads(lines[i]), Loads(lines[i + 1])), lines, i + 2)

\* The books stream written by this run is bulk-indexed.
IndexBooksStream ==
    /\ cPc = "done"
    /\ store' = Replay(store, out_books, 1)
    /\ cPc' = "indexed"
    /\ UNCHANGED <<cMode, cFiles, cPos, cRun, actions, books_lines, content_lines,
                   out_books, out_content>>
    /\ UNCHANGED <<epubVars, cliVars>>

\* The same batch is ingested again: a new run of main.
Rerun ==
    /\ cPc = "indexed"
    /\ cRun < MaxRuns
    /\ cRun' = cRun + 1
    /\ cPos' = 0
    /\ cPc' = "loop"
    /\ actions' = <<>>
    /\ books_lines' = <<>>
    /\ content_lines' = <<>>
    /\ UNCHANGED <<cMode, cFiles, out_books, out_content, store>>
    /\ UNCHANGED <<epubVars, cliVars>>

ConvNext ==
    \/ IterSkipName
    \/ IterS3DecodeError
    \/ IterLocalDecodeError
    \/ ProcessError
    \/ ProcessOk
    \/ WriteOutputs
    \/ IndexBooksStream
    \/ Rerun

InitConvert == ConvInit /\ EpubIdle /\ CliIdle

SpecConvert == InitConvert /\ [][ConvNext]_vars

(***************************************************************************)
(* Claims checked under SpecConvert.                                       *)
(***************************************************************************)
\* The artifact the last completed iteration consumed, when it was converted.
LastConverted == cPos > 0 /\ IsGood(cFiles[cPos])

\* The paragraphs of a book JSON in section order then paragraph order, each
\* as <<chapter_index, paragraph_index, text>>.
FlatParagraphs(bj) ==
    LET chs == Get(bj, "chapters", <<>>)
    IN Concat([c \in 1..Len(chs) |->
                 [q \in 1..Len(chs[c].fields.paragraphs) |->
                    <<c - 1, q - 1, chs[c].fields.paragraphs[q]>>]])

\* The number a sequence of decimal digits writes; -1 when a character of it
\* is no digit.
DigitValue(c) == IF \E d \in 1..10 : DigitChars[d] = c
                   THEN (CHOOSE d \in 1..10 : DigitChars[d] = c) - 1 ELSE -1
RECURSIVE DecimalValue(_)
DecimalValue(ds) ==
    IF ds = <<>> THEN 0
    ELSE LET hi == DecimalValue(SubSeq(ds, 1, Len(ds) - 1))
             lo == DigitValue(ds[Len(ds)])
         IN IF hi < 0 \/ lo < 0 THEN -1 ELSE 10 * hi + lo

\* id is "{book_id}-" followed by exactly six digits that write k.
IsChunkIdOf(id, book_id, k) ==
    /\ Len(id) = Len(book_id) + 7
    /\ SubSeq(id, 1, Len(book_id) + 1) = book_id \o <<"-">>
    /\ DecimalValue(SubSeq(id, Len(book_id) + 2, Len(id))) = k

\* The chunk records of a list returned by to_bulk_actions: the source lines
\* of every pair after the first (the Book summary pair).
ChunkRecords(acts) ==
    [k \in 1..((Len(acts) - 2) \div 2) |-> Loads(acts[2 * k + 2])]

\* C1: to_bulk_actions emits exactly N chunk records, N the sum of the
\* paragraph counts of the book's sections, and the k-th of them (k = 0..N-1,
\* in section order then paragraph order) carries chunk_id
\* "{book_id}-{k in 6 digits}": the sequence numbers are exactly [0, N).
C1_ChunkIdsContiguous ==
    LastConverted =>
        LET bj == cFiles[cPos].data.fields
            flat == FlatParagraphs(bj)
            recs == ChunkRecords(actions)
        IN /\ Len(actions) = 2 + 2 * Len(flat)
           /\ Len(flat) = SumSeq([c \in 1..Len(bj.chapters) |->
                                    Len(bj.chapters[c].fields.paragraphs)])
           /\ \A k \in 1..Len(flat) :
                /\ IsChunkIdOf(recs[k].chunk_id, bj.book_id, k - 1)
                /\ recs[k].chapter_index = flat[k][1]
                /\ recs[k].paragraph_index = flat[k][2]
                /\ recs[k].text = flat[k][3]

\* C1 witness: a converted book whose second chapter continues the numbering
\* of a first chapter of two paragraphs.
C1_Witness ==
    /\ LastConverted
    /\ Len(cFiles[cPos].data.fields.chapters) = 2
    /\ Len(cFiles[cPos].data.fields.chapters[1].fields.paragraphs) = 2
    /\ Len(cFiles[cPos].data.fields.chapters[2].fields.paragraphs) >= 1
    /\ Len(actions) >= 8

NonBlank(lines) == SelectSeq(lines, LAMBDA l : l # BlankLine)

\* What the documents of the batch that can be converted contribute to the
\* two streams, in batch order.
ExpectedBooks ==
    Concat([i \in 1..Len(cFiles) |->
              IF IsGood(cFiles[i])
                THEN SplitActions(ToBulkActions(cFiles[i].data, IndexBooks,
                                                IndexContent).actions, 0).books
                ELSE <<>>])
ExpectedContent ==
    Concat([i \in 1..Len(cFiles) |->
              IF IsGood(cFiles[i])
                THEN SplitActions(ToBulkActions(cFiles[i].data, IndexBooks,
                                                IndexContent).actions, 0).content
                ELSE <<>>])

RunEnded == cPc \in {"done", "indexed", "crashed"}

\* C3 (JSON to NDJSON stage): when a run has ended, the streams written hold
\* the complete output of every document of the batch that can be converted,
\* and nothing of the others: a failing document never aborts the batch.
C3_BadDocumentNeverAbortsBatch ==
    RunEnded => /\ NonBlank(out_books) = ExpectedBooks
                /\ NonBlank(out_content) = ExpectedContent

\* The action/source pairs of a stream.
Pairs(lines) == [k \in 1..(Len(NonBlank(lines)) \div 2) |->
                   [meta |-> Loads(NonBlank(lines)[2 * k - 1]),
                    src  |-> Loads(NonBlank(lines)[2 * k])]]

RecordsOf(st, b) == {i \in 1..Len(st) : st[i]._source.book_id = b}

\* C6: every action of the books stream is an index action whose _id is the
\* book_id of the summary that follows it, so a books index that has replayed
\* the streams of any number of runs holds exactly one summary per book
\* ingested and never two.
C6_BookUpsertIdempotent ==
    /\ \A k \in 1..Len(Pairs(books_lines)) :
          LET pr == Pairs(books_lines)[k]
          IN /\ DOMAIN pr.meta = {"index"}
             /\ pr.meta.index._index = IndexBooks
             /\ "_id" \in DOMAIN pr.meta.index
             /\ pr.meta.index._id = pr.src.book_id
    /\ out_books \in {<<>>, FileLines(books_lines)} \/ cPc = "loop"
    /\ \A b \in BookIds :
          /\ Cardinality(RecordsOf(store, b)) <= 1
          /\ (cPc = "indexed" /\ \E i \in 1..Len(cFiles) :
                 IsGood(cFiles[i]) /\ cFiles[i].data.fields.book_id = b)
               => Cardinality(RecordsOf(store, b)) = 1

\* C6 witness: the second run of a batch holding the same book twice has been
\* replayed, and the index holds one record.
C6_Witness ==
    /\ cPc = "indexed"
    /\ cRun = 2
    /\ Len(Pairs(out_books)) = 2
    /\ Pairs(out_books)[1].src.book_id = Pairs(out_books)[2].src.book_id
    /\ Len(store) = 1

(***************************************************************************)
(* Python str operations used by epub_to_json.py.                          *)
(***************************************************************************)
LowerChars == <<"a", "b", "c", "d", "e", "f", "g", "h", "i", "j", "k", "l", "m",
                "n", "o", "p", "q", "r", "s", "t", "u", "v", "w", "x", "y", "z">>
UpperChars == <<"A", "B", "C", "D", "E", "F", "G", "H", "I", "J", "K", "L", "M",
                "N", "O", "P", "Q", "R", "S", "T", "U", "V", "W", "X", "Y", "Z">>
OtherChars == <<" ", "\n", "\t", ",", "-", "_", ".", ":">>
AllChars == LowerChars \o UpperChars \o DigitChars \o OtherChars

IndexIn(tbl, c) == IF \E i \in 1..Len(tbl) : tbl[i] = c
                     THEN CHOOSE i \in 1..Len(tbl) : tbl[i] = c ELSE 0

IsLower(c) == IndexIn(LowerChars, c) > 0
IsUpper(c) == IndexIn(UpperChars, c) > 0
IsAlpha(c) == IsLower(c) \/ IsUpper(c)
\* \w of the re module.
IsWord(c) == IsAlpha(c) \/ IndexIn(DigitChars, c) > 0 \/ c = "_"
\* \s of the re module, and the characters str.strip() and str.split() drop.
IsSpace(c) == c \in {" ", "\n", "\t"}

ToUpper(c) == IF IsLower(c) THEN UpperChars[IndexIn(LowerChars, c)] ELSE c
ToLower(c) == IF IsUpper(c) THEN LowerChars[IndexIn(UpperChars, c)] ELSE c

Min(a, b) == IF a <= b THEN a ELSE b

\* s[:n] of a str or a list.
Take(s, n) == SubSeq(s, 1, Min(n, Len(s)))

\* str.strip()
RECURSIVE LStrip(_)
LStrip(s) == IF s # <<>> /\ IsSpace(Head(s)) THEN LStrip(Tail(s)) ELSE s
RECURSIVE RStrip(_)
RStrip(s) == IF s # <<>> /\ IsSpace(s[Len(s)])
               THEN RStrip(SubSeq(s, 1, Len(s) - 1)) ELSE s
Strip(s) == RStrip(LStrip(s))

\* sep.join(parts)
RECURSIVE Join(_, _)
Join(parts, sep) ==
    IF parts = <<>> THEN <<>>
    ELSE IF Len(parts) = 1 THEN parts[1]
    ELSE parts[1] \o sep \o Join(Tail(parts), sep)

\* The least i >= from at which pat occurs in s, 0 when there is none.
FindFrom(s, pat, from) ==
    LET hits == {i \in from..(Len(s) - Len(pat) + 1) :
                    SubSeq(s, i, i + Len(pat) - 1) = pat}
    IN IF hits = {} THEN 0 ELSE CHOOSE i \in hits : \A j \in hits : i <= j

\* s.split(sep): the parts between the occurrences of a non-empty sep.
RECURSIVE SplitOn(_, _)
SplitOn(s, sep) ==
    LET i == FindFrom(s, sep, 1)
    IN IF i = 0 THEN <<s>>
       ELSE <<SubSeq(s, 1, i - 1)>> \o SplitOn(SubSeq(s, i + Len(sep), Len(s)), sep)

\* len(s.split()): the number of whitespace-separated words.
WordCount(s) ==
    Cardinality({i \in 1..Len(s) :
                    ~IsSpace(s[i]) /\ (i = 1 \/ IsSpace(s[i - 1]))})

\* s.replace(a, b) for single characters.
ReplaceChar(s, a, b) == [i \in 1..Len(s) |-> IF s[i] = a THEN b ELSE s[i]]

\* str.title(): a letter is upper-cased after a non-letter, lower-cased after
\* a letter.
Title(s) ==
    [i \in 1..Len(s) |->
        IF i = 1 \/ ~IsAlpha(s[i - 1]) THEN ToUpper(s[i]) ELSE ToLower(s[i])]

(***************************************************************************)
(* hashlib.sha1(...).hexdigest().  SHA-1 itself is not computed: Sha1Hex is *)
(* a fixed function to 40 hexadecimal characters that tells apart any two  *)
(* inputs that differ within their first 20 characters.                    *)
(***************************************************************************)
HexChars == <<"0", "1", "2", "3", "4", "5", "6", "7", "8", "9",
              "a", "b", "c", "d", "e", "f">>
HexByte(n) == <<HexChars[((n \div 16) % 16) + 1], HexChars[(n % 16) + 1]>>
Sha1Hex(x) ==
    Take(Concat([i \in 1..Len(x) |-> HexByte(IndexIn(AllChars, x[i]) + 16)])
         \o Zeros(40), 40)

(***************************************************************************)
(* epub_to_json.py: extract_texts_from_item                                *)
(* The parsed markup of a content document is the sequence of its elements *)
(* in document order, each [tag, text]; nesting is not modelled.           *)
(***************************************************************************)
HeadingTags == {"h1", "h2", "h3", "title"}
BlockTags == {"p", "li", "pre"}

\* The element the priority order h1, h2, h3, title selects: the first match of
\* the first name of the list that occurs at all, whatever the document order.
FindHeadingByPriority(elems) ==
    LET has(t) == \E i \in 1..Len(elems) : elems[i].tag = t
        first(t) == CHOOSE i \in 1..Len(elems) :
                       elems[i].tag = t /\ \A j \in 1..(i - 1) : elems[j].tag # t
    IN IF has("h1") THEN first("h1")
       ELSE IF has("h2") THEN first("h2")
       ELSE IF has("h3") THEN first("h3")
       ELSE IF has("title") THEN first("title")
       ELSE 0

\* soup.find(["h1", "h2", "h3", "title"]): the first element, in document
\* order, whose name is any of the list; 0 when there is none.
FindHeading(elems) ==
    LET hits == {i \in 1..Len(elems) : elems[i].tag \in HeadingTags}
    IN IF hits = {} THEN 0 ELSE CHOOSE i \in hits : \A j \in hits : i <= j

\* tag.get_text(sep, strip=True) of an element holding one text node.
GetText(e) == Strip(e.text)

\* The texts list before the fallback: every p, li, pre with non-empty text.
BlockTexts(elems) ==
    LET blocks == SelectSeq(elems, LAMBDA e : e.tag \in BlockTags /\ GetText(e) # <<>>)
    IN [i \in 1..Len(blocks) |-> GetText(blocks[i])]

\* The fallback: the text of the body (of the whole document when there is no
\* body), text nodes stripped and joined by "\n", split on "\n\n", the
\* parts stripped and the empty ones dropped.  title is in the head.
BodyText(elems) ==
    LET inBody == SelectSeq(elems, LAMBDA e : e.tag # "title")
        nodes == IF inBody # <<>> THEN inBody ELSE elems
        texts == SelectSeq([i \in 1..Len(nodes) |-> GetText(nodes[i])],
                           LAMBDA t : t # <<>>)
    IN Join(texts, <<"\n">>)
FallbackTexts(elems) ==
    LET parts == SplitOn(BodyText(elems), <<"\n", "\n">>)
        kept == SelectSeq(parts, LAMBDA b : Strip(b) # <<>>)
    IN [i \in 1..Len(kept) |-> Strip(kept[i])]

\* extract_texts_from_item(item): (chapter or item.get_name(), texts)
ExtractTextsFromItem(item) ==
    LET h == FindHeading(item.elems)
        chapter == IF h # 0 THEN GetText(item.elems[h]) ELSE None
        texts == IF BlockTexts(item.elems) # <<>>
                   THEN BlockTexts(item.elems) ELSE FallbackTexts(item.elems)
    IN [chapter |-> IF Truthy(chapter) THEN chapter ELSE item.name,
        texts   |-> texts]

(***************************************************************************)
(* epub_to_json.py: the regular expressions of read_epub                   *)
(***************************************************************************)
\* How many characters from position j on are whitespace.
RECURSIVE WsRun(_, _)
WsRun(s, j) == IF j <= Len(s) /\ IsSpace(s[j]) THEN 1 + WsRun(s, j + 1) ELSE 0

\* How many characters from position j on are outside stops.
RECURSIVE RunUntil(_, _, _)
RunUntil(s, j, stops) ==
    IF j <= Len(s) /\ s[j] \notin stops THEN 1 + RunUntil(s, j + 1, stops) ELSE 0

\* The greedy group [^stops]+ starting at position j.
GroupAt(s, j, stops) == SubSeq(s, j, j + RunUntil(s, j, stops) - 1)

Largest(S) == CHOOSE x \in S : \A y \in S : y <= x
Least(S) == CHOOSE x \in S : \A y \in S : x <= y

\* [Bb]y
ByLetters(c1, c2) == c1 \in {"B", "b"} /\ c2 = "y"

\* The match of r"\b[Bb]y\s+([^\n,]+)" that starts at position i: its group,
\* or None.  \s+ is greedy and gives characters back, last first, until the
\* group can start: on a character that is neither newline nor comma.
AuthorMatchAt(s, i) ==
    LET w == WsRun(s, i + 2)
        after == i + 2 + w
        stops == {"\n", ","}
        back == {j \in (i + 3)..(i + 1 + w) : s[j] # "\n"}
    IN IF ~(/\ i + 1 <= Len(s)
            /\ ByLetters(s[i], s[i + 1])
            /\ (i = 1 \/ ~IsWord(s[i - 1]))
            /\ w >= 1)
         THEN None
       ELSE IF after <= Len(s) /\ s[after] \notin stops
         THEN GroupAt(s, after, stops)
       ELSE IF back # {}
         THEN GroupAt(s, Largest(back), stops)
       ELSE None

\* re.search: the group of the leftmost match, None when nothing matches.
AuthorSearch(s) ==
    LET hits == {i \in 1..Len(s) : AuthorMatchAt(s, i) # None}
    IN IF hits = {} THEN None ELSE AuthorMatchAt(s, Least(hits))

\* The match of r"[Pp]ublisher:?\s*([^\n]+)" that starts at position i: its
\* group, or None.  \s* gives characters back first, then :? does.
PublisherMatchAt(s, i) ==
    LET k == i + 9
        colon == k <= Len(s) /\ s[k] = ":"
        start == IF colon THEN k + 1 ELSE k
        w == WsRun(s, start)
        after == start + w
        back == {j \in start..(start + w - 1) : s[j] # "\n"}
    IN IF ~(/\ i + 8 <= Len(s)
            /\ s[i] \in {"P", "p"}
            /\ SubSeq(s, i + 1, i + 8) = <<"u", "b", "l", "i", "s", "h", "e", "r">>)
         THEN None
       ELSE IF after <= Len(s) THEN GroupAt(s, after, {"\n"})
       ELSE IF back # {} THEN GroupAt(s, Largest(back), {"\n"})
       ELSE IF colon THEN GroupAt(s, k, {"\n"})
       ELSE None

PublisherSearch(s) ==
    LET hits == {i \in 1..Len(s) : PublisherMatchAt(s, i) # None}
    IN IF hits = {} THEN None ELSE PublisherMatchAt(s, Least(hits))

(***************************************************************************)
(* epub_to_json.py: _meta_values, _pick_stable_id, read_epub               *)
(* A parsed container (book) is                                            *)
(*   [parses, uid, identifiers, meta, items, bytes]:                       *)
(*   uid the preferred-identifier marker (None when unset), identifiers    *)
(*   the DC identifier pairs [val, id] (id None when the element has no    *)
(*   id attribute), meta the values of each DC key, items the container's  *)
(*   items [doc, name, elems], bytes the raw file.                         *)
(***************************************************************************)
\* Python dict updates, on a dict modelled as a function over its keys.
Put(d, k, v) == [x \in DOMAIN d \cup {k} |-> IF x = k THEN v ELSE d[x]]
SetDefault(d, k, v) == IF k \in DOMAIN d THEN d ELSE Put(d, k, v)
Del(d, k) == [x \in DOMAIN d \ {k} |-> d[x]]

\* _meta_values(book, "DC", key): the values, each stripped.
MetaValues(book, key) ==
    [i \in 1..Len(book.meta[key]) |-> Strip(book.meta[key][i])]

\* A mutant of TagMatches: the marker is never looked at, so the first
\* identifier wins.
TagMatchesNever(uid_attr, tag, val) == FALSE

\* uid_attr and attrs.get("id") == uid_attr and val
TagMatches(uid_attr, tag, val) ==
    Truthy(uid_attr) /\ tag = uid_attr /\ val # <<>>

\* The loop of _pick_stable_id from pair i, and what follows it.
RECURSIVE PickLoop(_, _, _)
PickLoop(book, i, first_val) ==
    IF i > Len(book.identifiers)
      THEN IF Truthy(first_val) THEN first_val ELSE Sha1Hex(book.bytes)
      ELSE LET val == Strip(book.identifiers[i].val)
               tag == book.identifiers[i].id
               fv == IF ~Truthy(first_val) /\ val # <<>> THEN val ELSE first_val
           IN IF TagMatches(book.uid, tag, val)
                THEN val
                ELSE PickLoop(book, i + 1, fv)

PickStableId(book) == PickLoop(book, 1, None)

DigestPrefix == 16       \* hexdigest()[:16]
DescChapters == 3        \* data["chapters"][:3]
DescParas == 3           \* ch["paragraphs"][:3]
DescLimit == 2000        \* joined[:2000]
AuthorHeadParas == 10    \* paragraphs[:10]
PublisherHeadParas == 20 \* paragraphs[:20]
ScanChapters == 5        \* data["chapters"][:5]
ScanParas == 50          \* ch["paragraphs"][:50]
MaxAuthorWords == 4      \* len(author_slug.split()) <= 4

\* The loop over essential_meta.
MetaFields(book, d0) ==
    LET title == MetaValues(book, "title")
        d1 == IF title # <<>> THEN Put(d0, "title", title[1]) ELSE d0
        d2 == Put(d1, "authors", MetaValues(book, "creator"))
        pub == MetaValues(book, "publisher")
        d3 == IF pub # <<>> THEN Put(d2, "publisher", pub[1]) ELSE d2
        lang == MetaValues(book, "language")
        d4 == IF lang # <<>> THEN Put(d3, "language", lang[1]) ELSE d3
        desc == MetaValues(book, "description")
        d5 == IF desc # <<>> THEN Put(d4, "description", desc[1]) ELSE d4
    IN Put(d5, "genres", Join(MetaValues(book, "subject"), <<",", " ">>))

\* The chapters list: every document item that yields at least one text.
Chapters(book) ==
    LET docs == SelectSeq(book.items, LAMBDA it : it.doc)
        got == [i \in 1..Len(docs) |-> ExtractTextsFromItem(docs[i])]
        kept == SelectSeq(got, LAMBDA g : g.texts # <<>>)
    IN [i \in 1..Len(kept) |->
          [chapter |-> kept[i].chapter, paragraphs |-> kept[i].texts]]

\* The leading paragraphs of the first n chapters, m of each, in order.
LeadingParas(chs, n, m) ==
    Concat([c \in 1..Min(n, Len(chs)) |-> Take(chs[c].paragraphs, m)])

\* A mutant of AuthorFromText: the text is searched even when the structured
\* creators already gave an author.
AuthorFromTextUnguarded(d) ==
    IF d.chapters # <<>>
      THEN LET head == Join(Take(d.chapters[1].paragraphs, AuthorHeadParas), <<"\n">>)
               g == AuthorSearch(head)
           IN IF g # None THEN Put(d, "author", Strip(g)) ELSE d
      ELSE d

\* The author the text of the first chapter gives, if it gives one.
AuthorFromText(d) ==
    IF ~Truthy(Get(d, "author", None)) /\ d.chapters # <<>>
      THEN LET head == Join(Take(d.chapters[1].paragraphs, AuthorHeadParas), <<"\n">>)
               g == AuthorSearch(head)
           IN IF g # None THEN Put(d, "author", Strip(g)) ELSE d
      ELSE d

\* The author the file name gives, if it gives one.
AuthorFromStem(d, stem) ==
    IF ~Truthy(Get(d, "author", None))
      THEN LET author_slug == Strip(ReplaceChar(SplitOn(stem, <<"_">>)[1], "-", " "))
           IN IF author_slug # <<>> /\ WordCount(author_slug) <= MaxAuthorWords
                THEN Put(d, "author", Title(author_slug)) ELSE d
      ELSE d

PublisherFromText(d) ==
    IF ~Truthy(Get(d, "publisher", None)) /\ d.chapters # <<>>
      THEN LET head == Join(Take(d.chapters[1].paragraphs, PublisherHeadParas),
                            <<"\n">>)
               g == PublisherSearch(head)
           IN IF g # None THEN Put(d, "publisher", Strip(g)) ELSE d
      ELSE d

StandardEbooks == <<"S", "t", "a", "n", "d", "a", "r", "d", " ",
                    "E", "b", "o", "o", "k", "s">>
PublisherFromMarker(d) ==
    IF ~Truthy(Get(d, "publisher", None)) /\ d.chapters # <<>>
      THEN LET all_text == Join(LeadingParas(d.chapters, ScanChapters, ScanParas),
                                <<"\n">>)
           IN IF FindFrom(all_text, StandardEbooks, 1) # 0
                THEN Put(d, "publisher", StandardEbooks) ELSE d
      ELSE d

DescriptionFromText(d) ==
    IF ~Truthy(Get(d, "description", None))
      THEN LET joined == Strip(Join(LeadingParas(d.chapters, DescChapters, DescParas),
                                    <<"\n", "\n">>))
           IN IF joined # <<>> THEN Put(d, "description", Take(joined, DescLimit))
              ELSE d
      ELSE d

\* A mutant of AssignBookId: setdefault instead of the assignment, so the
\* base name read_epub starts with stays the book_id.
KeepBookId(d, book_id) == SetDefault(d, "book_id", book_id)

\* data["book_id"] = ...: the assignment replaces the base name.
AssignBookId(d, book_id) == Put(d, "book_id", book_id)

\* read_epub(epub_path) for a container that parses: the data dict.
ReadEpub(stem, book) ==
    LET d0 == [book_id |-> stem, chapters |-> <<>>]
        d1 == MetaFields(book, d0)
        d2 == Put(d1, "author",
                  Join(SelectSeq(d1.authors, LAMBDA a : a # <<>>), <<",", " ">>))
        source_uid == PickStableId(book)
        d3 == AssignBookId(Put(d2, "source_uid", source_uid),
                           Take(Sha1Hex(source_uid), DigestPrefix))
        d4 == SetDefault(SetDefault(SetDefault(d3, "publisher", <<>>),
                                    "genres", <<>>), "linkToBook", <<>>)
        titles == MetaValues(book, "title")
        d5 == IF ~Truthy(Get(d4, "title", None))
                THEN Put(d4, "title", IF titles # <<>> THEN titles[1] ELSE stem)
                ELSE d4
        d6 == Del(d5, "authors")
        d7 == Put(d6, "chapters", Chapters(book))
        d8 == DescriptionFromText(d7)
        d9 == AuthorFromText(d8)
        d10 == PublisherFromText(d9)
        d11 == AuthorFromStem(d10, stem)
    IN PublisherFromMarker(d11)

(***************************************************************************)
(* epub_to_json.py: main                                                   *)
(***************************************************************************)
\* json.dump(data) as the JSON document a reader of the file decodes.
JsonOf(d) ==
    [type |-> "dict",
     fields |-> [d EXCEPT !.chapters =
                    [i \in 1..Len(d.chapters) |->
                        [type |-> "dict", fields |-> d.chapters[i]]]]]

\* f"s3://{raw_bucket}/{obj.object_name}" and f"file://{ep.resolve()}"
LinkOf(mode, stem) ==
    IF mode = "s3" THEN <<"s", "3", ":">> \o stem ELSE <<"f", "i", "l", "e", ":">> \o stem

CurEpub == eInputs[ePos + 1]
InEpubLoop == ePc = "loop" /\ ePos < Len(eInputs)

\* A listed name that is no *.epub: the S3 loop continues, glob("**/*.epub")
\* never lists it.
EpubSkipName ==
    /\ InEpubLoop
    /\ CurEpub.ext # "epub"
    /\ ePos' = ePos + 1
    /\ UNCHANGED <<eMode, eInputs, ePc, data, parsed>>
    /\ UNCHANGED <<convVars, cliVars>>

\* read_epub raises (epub.read_epub cannot parse the container): the except
\* clause of the loop body prints ERROR, the loop continues.
EpubReadError ==
    /\ InEpubLoop
    /\ CurEpub.ext = "epub"
    /\ ~CurEpub.book.parses
    /\ ePos' = ePos + 1
    /\ UNCHANGED <<eMode, eInputs, ePc, data, parsed>>
    /\ UNCHANGED <<convVars, cliVars>>

\* One iteration that prints OK: read_epub, linkToBook, the JSON file written
\* under the source's base name.
EpubReadOk ==
    /\ InEpubLoop
    /\ CurEpub.ext = "epub"
    /\ CurEpub.book.parses
    /\ LET d == Put(ReadEpub(CurEpub.stem, CurEpub.book), "linkToBook",
                    LinkOf(eMode, CurEpub.stem))
       IN /\ data' = d
          /\ parsed' = Put(parsed, CurEpub.stem, JsonOf(d))
    /\ ePos' = ePos + 1
    /\ UNCHANGED <<eMode, eInputs, ePc>>
    /\ UNCHANGED <<convVars, cliVars>>

EpubFinish ==
    /\ ePc = "loop" /\ ePos = Len(eInputs)
    /\ ePc' = "done"
    /\ UNCHANGED <<eMode, eInputs, ePos, data, parsed>>
    /\ UNCHANGED <<convVars, cliVars>>

EpubNext ==
    \/ EpubSkipName
    \/ EpubReadError
    \/ EpubReadOk
    \/ EpubFinish

(***************************************************************************)
(* The containers the specifications of epub_to_json.py draw.              *)
(***************************************************************************)
MaxIds == 3         \* DC identifier pairs of a generated container
MaxElems == 3       \* elements of a generated content document
MaxHead == 4        \* characters of a generated first paragraph

NoMeta == [title |-> <<>>, creator |-> <<>>, publisher |-> <<>>,
           language |-> <<>>, description |-> <<>>, subject |-> <<>>]
MkBook(uid, ids, meta, items, bytes) ==
    [parses |-> TRUE, uid |-> uid, identifiers |-> ids, meta |-> meta,
     items |-> items, bytes |-> bytes]
Unparseable ==
    [parses |-> FALSE, uid |-> None, identifiers |-> <<>>, meta |-> NoMeta,
     items |-> <<>>, bytes |-> <<"z">>]
Epub(stem, book) == [ext |-> "epub", stem |-> stem, book |-> book]
NotAnEpub == [ext |-> "txt", stem |-> <<"n">>, book |-> Unparseable]
BrokenEpub == Epub(<<"k">>, Unparseable)

Para(text) == [tag |-> "p", text |-> text]
DocItem(name, elems) == [doc |-> TRUE, name |-> name, elems |-> elems]
ImageItem == [doc |-> FALSE, name |-> <<"i">>, elems |-> <<>>]

\* Every specification also draws the two inputs that are not read.
Unread == {<<NotAnEpub>>, <<BrokenEpub>>}

\* Spec 8's end-to-end scenario: heading "Chapter 1", three paragraphs,
\* title T, creator A, no preferred marker, one identifier.
ScenarioBook ==
    MkBook(None, <<[val |-> <<"u", "r", "n", ":", "a">>, id |-> None]>>,
           [NoMeta EXCEPT !.title = <<<<"T">>>>, !.creator = <<<<"A">>>>],
           <<ImageItem,
             DocItem(<<"c", "1">>,
                     <<[tag |-> "h1", text |-> <<"C", "h", " ", "1">>],
                       Para(<<"p">>), Para(<<"q">>), Para(<<"r">>)>>)>>,
           <<"r", "1">>)
\* No metadata, no identifier, nothing to read.
EmptyBook == MkBook(None, <<>>, NoMeta, <<ImageItem>>, <<"r", "2">>)
ByJane == <<"B", "y", " ", "J", "a", "n", "e", " ", "Q", ".", " ", "A", "u",
            "t", "h", "o", "r", ",", " ", "a", " ", "n", "o", "v", "e", "l">>
BylineBook ==
    MkBook(None, <<>>, NoMeta, <<DocItem(<<"c", "1">>, <<Para(ByJane)>>)>>,
           <<"r", "3">>)
ImprintBook ==
    MkBook(None, <<>>, NoMeta,
           <<DocItem(<<"c", "1">>,
                     <<Para(<<"P", "u", "b", "l", "i", "s", "h", "e", "r", ":",
                              " ", "X", " ">>)>>)>>,
           <<"r", "4">>)
ColophonBook ==
    MkBook(None, <<>>, NoMeta,
           <<DocItem(<<"c", "1">>, <<Para(<<"a">> \o StandardEbooks)>>)>>,
           <<"r", "5">>)
SampleEpubs ==
    {Epub(<<"s", "c">>, ScenarioBook), Epub(<<"a", "-", "b", "-", "c", "-", "d", "-", "e">>, EmptyBook),
     Epub(<<"_", "b">>, BylineBook), Epub(<<"_", "i">>, ImprintBook),
     Epub(<<"_", "c">>, ColophonBook), NotAnEpub, BrokenEpub}

\* Containers with any combination of the six DC fields absent, blank or set.
MetaChoices == {<<>>, <<<<" ">>>>, <<<<"v">>>>}
GeneralMetas ==
    [{"title", "creator", "publisher", "language", "description", "subject"}
        -> MetaChoices]
GeneralMetaEpubs ==
    {Epub(<<"_", "g">>, MkBook(None, <<>>, meta, items, <<"r">>)) :
        meta \in GeneralMetas,
        items \in {<<>>, <<DocItem(<<"c", "1">>, <<Para(<<"p">>)>>)>>}}

\* Containers with any identifiers and markers.
IdValues == {<<>>, <<"x">>, <<" ", "y">>}
IdTags == {None, <<>>, <<"u">>, <<"v">>}
IdPairs == {[val |-> v, id |-> t] : v \in IdValues, t \in IdTags}
Markers == {None, <<>>, <<"u">>}
IdentityEpubs ==
    {Epub(<<"_", "d">>, MkBook(uid, ids, NoMeta, <<>>, bytes)) :
        uid \in Markers, ids \in SeqsUpTo(IdPairs, MaxIds),
        bytes \in {<<"r">>, <<"s">>}}

\* Content documents with any elements.
ElemTags == {"h1", "h2", "h3", "title", "p", "div"}
ElemTexts == {<<>>, <<"x">>, <<"y">>}
Elems == {[tag |-> t, text |-> x] : t \in ElemTags, x \in ElemTexts}
LabelEpubs ==
    {Epub(<<"_", "l">>,
          MkBook(None, <<>>, NoMeta, <<DocItem(<<"n", "m">>, es)>>, <<"r">>)) :
        es \in SeqsUpTo(Elems, MaxElems)}

\* Containers with any creators, first paragraphs and base names.
HeadChars == {"b", "y", "Y", " ", "\n", ",", "j"}
Creators == {<<>>, <<<<>>>>, <<<<"A">>>>, <<<<"A">>, <<" ">>, <<"B">>>>}
Stems == {<<"_", "x">>, <<"j", "-", "d", "_", "x">>, <<"t">>,
          <<"a", "-", "b", "-", "c", "-", "d", "-", "e", "_", "x">>}
AuthorBook(creators, items) ==
    MkBook(None, <<>>, [NoMeta EXCEPT !.creator = creators], items, <<"r">>)
AuthorEpubs ==
    {Epub(stem, AuthorBook(<<>>, <<DocItem(<<"c", "1">>, <<Para(head)>>)>>)) :
        stem \in {<<"_", "x">>, <<"j", "-", "d", "_", "x">>},
        head \in SeqsUpTo(HeadChars, MaxHead)}
    \cup {Epub(stem, AuthorBook(creators, items)) :
            stem \in Stems, creators \in Creators,
            items \in {<<>>,
                       <<DocItem(<<"c", "1">>, <<Para(ByJane)>>)>>,
                       <<DocItem(<<"c", "1">>,
                                 <<Para(<<"B", "Y", " ", "J">>), Para(<<"b", "y", " ", "K", ",", "L">>)>>)>>,
                       <<DocItem(<<"c", "0">>, <<Para(<<"o">>)>>),
                         DocItem(<<"c", "1">>, <<Para(ByJane)>>)>>}}

EpubInit(batches, modes) ==
    /\ eMode \in modes
    /\ eInputs \in batches
    /\ ePos = 0
    /\ ePc = "loop"
    /\ data = <<>>
    /\ parsed = <<>>
    /\ ConvIdle
    /\ CliIdle

\* Batches of sample containers, and single containers with any metadata.
SpecEpub ==
    /\ EpubInit(SeqsUpTo(SampleEpubs, MaxFiles)
                \cup {<<e>> : e \in GeneralMetaEpubs}, {"local", "s3"})
    /\ [][EpubNext]_vars

SpecIdentity ==
    /\ EpubInit({<<e>> : e \in IdentityEpubs} \cup Unread, {"local"})
    /\ [][EpubNext]_vars

SpecLabel ==
    /\ EpubInit({<<e>> : e \in LabelEpubs} \cup Unread, {"local"})
    /\ [][EpubNext]_vars

SpecAuthor ==
    /\ EpubInit({<<e>> : e \in AuthorEpubs} \cup Unread, {"local"})
    /\ [][EpubNext]_vars

(***************************************************************************)
(* Claims checked under the specifications of epub_to_json.py.             *)
(***************************************************************************)
\* The container the last completed iteration read, when read_epub returned.
LastRead == /\ ePos > 0
            /\ eInputs[ePos].ext = "epub"
            /\ eInputs[ePos].book.parses
LastBook == eInputs[ePos].book
LastStem == eInputs[ePos].stem

MetadataFields == {"title", "author", "publisher", "genres", "description",
                   "language"}

\* C4: the record read_epub produces and the Book summary to_bulk_actions
\* builds from it hold a non-null value for every metadata field, whatever
\* metadata and text the source has.
C4_MetadataNeverNull ==
    LastRead =>
        \A f \in MetadataFields :
            /\ f \in DOMAIN data
            /\ data[f] # None
            /\ BookDoc(JsonOf(data).fields)[f] # None

\* The identifier values, trimmed, and the positions whose tag is the marker.
IdValue(book, i) == Strip(book.identifiers[i].val)
IsHex16(x) == /\ Len(x) = 16
              /\ \A i \in 1..Len(x) : IndexIn(HexChars, x[i]) > 0

\* C5: if any identifier value's tag equals the preferred-identifier marker,
\* source_uid is that value, whatever its position among the identifiers;
\* otherwise it is the first identifier value found; otherwise the digest of
\* the raw bytes.  book_id is the first 16 hex characters of the digest of
\* source_uid.  (An identifier whose text is blank has no value, and an unset
\* or empty marker designates nothing.)
C5_IdentityPriority ==
    LastRead =>
        LET ids == LastBook.identifiers
            live == {i \in 1..Len(ids) : IdValue(LastBook, i) # <<>>}
            tagged == {i \in live : /\ LastBook.uid \notin {None, <<>>}
                                    /\ ids[i].id = LastBook.uid}
        IN /\ data.source_uid =
                IF tagged # {} THEN IdValue(LastBook, Least(tagged))
                ELSE IF live # {} THEN IdValue(LastBook, Least(live))
                ELSE Sha1Hex(LastBook.bytes)
           /\ data.book_id = Take(Sha1Hex(data.source_uid), 16)
           /\ IsHex16(data.book_id)

\* C5 witness: the identifier tagged with the marker comes after another
\* identifier that has a value, and its value is the source_uid.
C5_Witness ==
    /\ LastRead
    /\ Len(LastBook.identifiers) >= 2
    /\ IdValue(LastBook, 1) = <<"x">>
    /\ LastBook.identifiers[1].id # LastBook.uid
    /\ LastBook.identifiers[2].id = LastBook.uid
    /\ IdValue(LastBook, 2) = <<"y">>
    /\ data.source_uid = <<"y">>

\* The content documents of a container.
DocItems(book) == SelectSeq(book.items, LAMBDA it : it.doc)

\* C9: the label of a content subunit is the text of the highest-priority
\* heading element present in it (h1, then h2, then h3, then title), whatever
\* the order of the elements in the markup; the subunit's name is used only
\* when there is none.  (Stated for subunits whose headings all have text.)
C9_LabelByPriority ==
    (/\ LastRead
     /\ Len(DocItems(LastBook)) = 1
     /\ data.chapters # <<>>
     /\ \A i \in 1..Len(DocItems(LastBook)[1].elems) :
           DocItems(LastBook)[1].elems[i].tag \in HeadingTags
             => GetText(DocItems(LastBook)[1].elems[i]) # <<>>)
    => LET item == DocItems(LastBook)[1]
           h == FindHeadingByPriority(item.elems)
       IN data.chapters[1].chapter =
            IF h # 0 THEN GetText(item.elems[h]) ELSE item.name

\* The group of the match of "by", whitespace, name that starts at position
\* i, by the meaning of the pattern: any k >= 1 whitespace characters, then
\* any n >= 1 characters that are neither newline nor comma, the longest k
\* and then the longest n winning.  None when position i matches nothing.
\* anycase says whether "Y" is taken for "y" too.
NameAfterBy(s, i, anycase) ==
    LET cand == {kn \in (1..Len(s)) \X (1..Len(s)) :
                    /\ i + 1 + kn[1] + kn[2] <= Len(s)
                    /\ \A j \in (i + 2)..(i + 1 + kn[1]) : IsSpace(s[j])
                    /\ \A j \in (i + 2 + kn[1])..(i + 1 + kn[1] + kn[2]) :
                          s[j] \notin {"\n", ","}}
        best == CHOOSE kn \in cand :
                   \A o \in cand : \/ o[1] < kn[1]
                                   \/ (o[1] = kn[1] /\ o[2] <= kn[2])
    IN IF \/ i + 1 > Len(s)
          \/ s[i] \notin {"B", "b"}
          \/ ~(s[i + 1] = "y" \/ (anycase /\ s[i + 1] = "Y"))
          \/ (i > 1 /\ IsWord(s[i - 1]))
          \/ cand = {}
         THEN None
         ELSE SubSeq(s, i + 2 + best[1], i + 1 + best[1] + best[2])

\* The name the leftmost such match gives, trimmed; None without a match.
NameInText(s, anycase) ==
    LET hits == {i \in 1..Len(s) : NameAfterBy(s, i, anycase) # None}
    IN IF hits = {} THEN None ELSE Strip(NameAfterBy(s, Least(hits), anycase))

\* The author the chain of the claim resolves for the container last read.
ChainAuthor(anycase) ==
    LET named == SelectSeq(MetaValues(LastBook, "creator"), LAMBDA a : a # <<>>)
        creators == Join(named, <<",", " ">>)
        head == IF data.chapters = <<>> THEN <<>>
                ELSE Join(Take(data.chapters[1].paragraphs, 10), <<"\n">>)
        byname == NameInText(head, anycase)
        under == {i \in 1..Len(LastStem) : LastStem[i] = "_"}
        segment == IF under = {} THEN LastStem
                   ELSE SubSeq(LastStem, 1, Least(under) - 1)
        slug == Strip(ReplaceChar(segment, "-", " "))
    IN IF creators # <<>> THEN creators
       ELSE IF byname \notin {None, <<>>} THEN byname
       ELSE IF slug # <<>> /\ WordCount(slug) <= 4 THEN Title(slug)
       ELSE <<>>

\* C10 as claimed: author is (1) the creators joined with ", "; (2) only if
\* that is empty, the name following a case-insensitive "by" in the leading
\* paragraphs of the first section, ending at the first newline or comma;
\* (3) only if still empty, the base name's segment before the first
\* underscore, hyphens to spaces, title-cased, if it has at most 4 words;
\* otherwise the empty string.
C10_AuthorChainAsClaimed == LastRead => data.author = ChainAuthor(TRUE)

\* C10 as amended: the same chain, where step (2) takes the name following
\* "By" or "by" (either case of the b, a small y) at the start of a word.
C10_AuthorChain == LastRead => data.author = ChainAuthor(FALSE)

\* C10 witness: no creator, a first paragraph "By Jane Q. Author, a novel",
\* and the author resolved from it.
C10_Witness ==
    /\ LastRead
    /\ LastBook.meta.creator = <<>>
    /\ data.chapters # <<>>
    /\ data.chapters[1].paragraphs = <<ByJane>>
    /\ data.author = <<"J", "a", "n", "e", " ", "Q", ".", " ", "A", "u",
                       "t", "h", "o", "r">>

(***************************************************************************)
(* scripts/escli.py: _bulk_post and the bulk endpoint                      *)
(***************************************************************************)
MaxPairs == 2        \* entries (pairs or stray lines) of a generated NDJSON file
MaxChunkBytes == 3   \* largest chunk_bytes tried
MaxFlushLen == 4     \* largest length of to_update at which a batch is flushed

\* A non-blank line of a stream is an action (metadata) line or a source line.
IsBlank(line) == line = BlankLine
IsAction(line) == ~IsBlank(line)
                  /\ DOMAIN Loads(line) \cap {"index", "update"} # {}
OpOf(line) == IF "update" \in DOMAIN Loads(line) THEN "update" ELSE "index"

\* The error objects the bulk endpoint reports for an item.
ItemErrors == {<<"e", "1">>, <<"e", "2">>}

\* The endpoint's item for one action: its key is the action's operation, and
\* it carries an error exactly when the action failed.
ItemFor(line, e) ==
    LET res == IF e = None THEN [status |-> 201] ELSE [status |-> 400, error |-> e]
    IN IF OpOf(line) = "update" THEN [update |-> res] ELSE [index |-> res]

\* The action lines the endpoint parses out of a body: lines 1, 3, 5, ...; an
\* action line that ends the body has no source and is dropped.
RECURSIVE BodyActions(_, _)
BodyActions(body, i) ==
    IF i + 1 > Len(body) THEN <<>>
    ELSE <<body[i]>> \o BodyActions(body, i + 2)

Parsable(body) ==
    \A i \in 1..Len(body) : (i % 2 = 1) => IsAction(body[i])

\* The responses the endpoint can give to a body: a status >= 400 (the body is
\* rejected, or the transport gave up), or a 200 with one item per action and
\* errors = true exactly when some item failed.
HttpError == [status |-> 400]
Responses(body) ==
    {HttpError}
    \cup (IF ~Parsable(body) THEN {}
          ELSE LET acts == BodyActions(body, 1)
               IN {[status |-> 200,
                    errors |-> \E i \in 1..Len(es) : es[i] # None,
                    items  |-> [i \in 1..Len(acts) |-> ItemFor(acts[i], es[i])]] :
                     es \in [1..Len(acts) -> {None} \cup ItemErrors]})

\* any(k in item and item[k].get("error") for k in ("index", "update"))
Offending(item) ==
    \E k \in {"index", "update"} :
        k \in DOMAIN item /\ Truthy(Get(item[k], "error", None))

\* A mutant of FirstOffending: the last offending item of the list.
RECURSIVE LastOffending(_)
LastOffending(items) ==
    IF items = <<>> THEN NoError
    ELSE IF Offending(items[Len(items)])
           THEN [kind |-> "bulk", item |-> items[Len(items)]]
           ELSE LastOffending(SubSeq(items, 1, Len(items) - 1))

\* The for loop of _bulk_post: raise at the first offending item; the loop
\* ending raises nothing.
RECURSIVE FirstOffending(_)
FirstOffending(items) ==
    IF items = <<>> THEN NoError
    ELSE IF Offending(Head(items))
           THEN [kind |-> "bulk", item |-> Head(items)]
           ELSE FirstOffending(Tail(items))

\* _bulk_post on the response r: what it raises (es_request raises on a
\* status >= 400).
BulkPost(r) ==
    IF r.status >= 400 THEN [kind |-> "http"]
    ELSE IF Get(r, "errors", FALSE) THEN FirstOffending(Get(r, "items", <<>>))
    ELSE NoError

(***************************************************************************)
(* scripts/escli.py: bulk_file                                             *)
(***************************************************************************)
CurLine == ndjson[lpos + 1]
InFile == cliPc = "loop" /\ lpos < Len(ndjson)

\* The size test after a line has been appended.
ChunkFull(sz) == sz >= args.chunk_bytes

\* A mutant of Drained: the buffer keeps the lines just posted.
NotDrained(b) == b

\* buf, size = [], 0: the buffer after a post that raised nothing.
Drained(b) == <<>>

\* A blank line is skipped.
BulkBlank ==
    /\ cmd = "bulk" /\ InFile
    /\ IsBlank(CurLine)
    /\ lpos' = lpos + 1
    /\ UNCHANGED <<cmd, args, ndjson, nbytes, cliPc, buf, size, sent, expect_src,
                   iter_meta, to_update, total, yielded, encoded, posted, resp,
                   raised>>
    /\ UNCHANGED <<convVars, epubVars>>

\* A line is appended and the size stays below chunk_bytes.
BulkAppend ==
    /\ cmd = "bulk" /\ InFile
    /\ ~IsBlank(CurLine)
    /\ ~ChunkFull(size + nbytes[lpos + 1])
    /\ buf' = Append(buf, CurLine)
    /\ size' = size + nbytes[lpos + 1]
    /\ lpos' = lpos + 1
    /\ UNCHANGED <<cmd, args, ndjson, nbytes, cliPc, sent, expect_src, iter_meta,
                   to_update, total, yielded, encoded, posted, resp, raised>>
    /\ UNCHANGED <<convVars, epubVars>>

\* A line is appended, the size reaches chunk_bytes and the buffer is posted;
\* an exception of _bulk_post leaves bulk_file and main.
BulkFlush ==
    /\ cmd = "bulk" /\ InFile
    /\ ~IsBlank(CurLine)
    /\ ChunkFull(size + nbytes[lpos + 1])
    /\ LET b1 == Append(buf, CurLine)
       IN \E r \in Responses(b1) :
            /\ posted' = Append(posted, b1)
            /\ resp' = r
            /\ raised' = BulkPost(r)
            /\ IF BulkPost(r) = NoError
                 THEN /\ sent' = sent + (Len(b1) \div 2)
                      /\ buf' = Drained(b1)
                      /\ size' = 0
                      /\ cliPc' = "loop"
                 ELSE /\ sent' = sent
                      /\ buf' = b1
                      /\ size' = size + nbytes[lpos + 1]
                      /\ cliPc' = "failed"
    /\ lpos' = lpos + 1
    /\ UNCHANGED <<cmd, args, ndjson, nbytes, expect_src, iter_meta, to_update,
                   total, yielded, encoded>>
    /\ UNCHANGED <<convVars, epubVars>>

\* After the loop a non-empty buffer is posted.
BulkFinalFlush ==
    /\ cmd = "bulk" /\ cliPc = "loop" /\ lpos = Len(ndjson)
    /\ buf # <<>>
    /\ \E r \in Responses(buf) :
         /\ posted' = Append(posted, buf)
         /\ resp' = r
         /\ raised' = BulkPost(r)
         /\ IF BulkPost(r) = NoError
              THEN sent' = sent + (Len(buf) \div 2) /\ cliPc' = "done"
              ELSE sent' = sent /\ cliPc' = "failed"
    /\ UNCHANGED <<cmd, args, ndjson, nbytes, lpos, buf, size, expect_src,
                   iter_meta, to_update, total, yielded, encoded>>
    /\ UNCHANGED <<convVars, epubVars>>

\* After the loop with an empty buffer: nothing is left to post.
BulkReturn ==
    /\ cmd = "bulk" /\ cliPc = "loop" /\ lpos = Len(ndjson)
    /\ buf = <<>>
    /\ cliPc' = "done"
    /\ UNCHANGED <<cmd, args, ndjson, nbytes, lpos, buf, size, sent, expect_src,
                   iter_meta, to_update, total, yielded, encoded, posted, resp,
                   raised>>
    /\ UNCHANGED <<convVars, epubVars>>

(***************************************************************************)
(* scripts/escli.py: _load_model, _iter_ndjson_docs, embed_from_ndjson     *)
(***************************************************************************)
\* model.encode([text])[0].tolist(): the embedding model is a function from
\* the text to a vector.
Encode(text) == <<"v", "e", "c", ":">> \o text

\* A mutant of NotText: only a missing (null) text is skipped.
NotTextNull(text) == text = None

\* "if not text": the text is None or the empty string.
NotText(text) == ~Truthy(text)

\* A mutant of Idx: the record's own index, whatever --index-override says.
IdxOfRecord(m) == m.index._index

\* index_override or meta["index"]["_index"]; no --index-override leaves the
\* argument None, args then has no such key.
Idx(m) == IF "index_override" \in DOMAIN args THEN args.index_override
          ELSE m.index._index

\* The two lines a record with a text adds to to_update.
EmbedPair(m, src) ==
    LET text == Get(src, args.source_field, <<>>)
        vec == Encode(text)
    IN IF "_id" \notin DOMAIN m.index
         THEN <<Dumps([index |-> [_index |-> Idx(m)]]),
                Dumps(Put(src, args.target_field, vec))>>
         ELSE <<Dumps([update |-> [_index |-> Idx(m), _id |-> m.index._id]]),
                Dumps([doc |-> Put(<<>>, args.target_field, vec)])>>

\* len(to_update) >= 1000; the model tries smaller lengths, args.flush_len.
BatchFull(lines) == Len(lines) >= args.flush_len

\* _load_model: the model is loaded ...
LoadModel ==
    /\ cmd = "embed" /\ cliPc = "start"
    /\ args.model_ok
    /\ cliPc' = "loop"
    /\ UNCHANGED <<cmd, args, ndjson, nbytes, lpos, buf, size, sent, expect_src,
                   iter_meta, to_update, total, yielded, encoded, posted, resp,
                   raised>>
    /\ UNCHANGED <<convVars, epubVars>>

\* ... or sentence-transformers is not installed: RuntimeError.
LoadModelError ==
    /\ cmd = "embed" /\ cliPc = "start"
    /\ ~args.model_ok
    /\ cliPc' = "failed"
    /\ UNCHANGED <<cmd, args, ndjson, nbytes, lpos, buf, size, sent, expect_src,
                   iter_meta, to_update, total, yielded, encoded, posted, resp,
                   raised>>
    /\ UNCHANGED <<convVars, epubVars>>

\* _iter_ndjson_docs: a blank line is skipped.
IterBlank ==
    /\ cmd = "embed" /\ InFile
    /\ IsBlank(CurLine)
    /\ lpos' = lpos + 1
    /\ UNCHANGED <<cmd, args, ndjson, nbytes, cliPc, buf, size, sent, expect_src,
                   iter_meta, to_update, total, yielded, encoded, posted, resp,
                   raised>>
    /\ UNCHANGED <<convVars, epubVars>>

\* _iter_ndjson_docs: an action line becomes the pending meta.
IterMeta ==
    /\ cmd = "embed" /\ InFile
    /\ ~IsBlank(CurLine)
    /\ "index" \in DOMAIN Loads(CurLine)
    /\ iter_meta' = Loads(CurLine)
    /\ expect_src' = TRUE
    /\ lpos' = lpos + 1
    /\ UNCHANGED <<cmd, args, ndjson, nbytes, cliPc, buf, size, sent, to_update,
                   total, yielded, encoded, posted, resp, raised>>
    /\ UNCHANGED <<convVars, epubVars>>

\* _iter_ndjson_docs: a source line no action line precedes is skipped.
IterOrphan ==
    /\ cmd = "embed" /\ InFile
    /\ ~IsBlank(CurLine)
    /\ "index" \notin DOMAIN Loads(CurLine)
    /\ ~expect_src
    /\ lpos' = lpos + 1
    /\ UNCHANGED <<cmd, args, ndjson, nbytes, cliPc, buf, size, sent, expect_src,
                   iter_meta, to_update, total, yielded, encoded, posted, resp,
                   raised>>
    /\ UNCHANGED <<convVars, epubVars>>

\* A source line after its action line is yielded.
Yields ==
    /\ cmd = "embed" /\ InFile
    /\ ~IsBlank(CurLine)
    /\ "index" \notin DOMAIN Loads(CurLine)
    /\ expect_src

\* The record yielded has no text in the source field: continue.
EmbedSkip ==
    /\ Yields
    /\ NotText(Get(Loads(CurLine), args.source_field, <<>>))
    /\ yielded' = Append(yielded, [meta |-> iter_meta, src |-> Loads(CurLine)])
    /\ expect_src' = FALSE
    /\ lpos' = lpos + 1
    /\ UNCHANGED <<cmd, args, ndjson, nbytes, cliPc, buf, size, sent, iter_meta,
                   to_update, total, encoded, posted, resp, raised>>
    /\ UNCHANGED <<convVars, epubVars>>

\* The record yielded has a text: it is encoded and its pair is appended;
\* to_update stays below the flush length.
EmbedAppend ==
    /\ Yields
    /\ ~NotText(Get(Loads(CurLine), args.source_field, <<>>))
    /\ ~BatchFull(to_update \o EmbedPair(iter_meta, Loads(CurLine)))
    /\ yielded' = Append(yielded, [meta |-> iter_meta, src |-> Loads(CurLine)])
    /\ encoded' = Append(encoded, Get(Loads(CurLine), args.source_field, <<>>))
    /\ to_update' = to_update \o EmbedPair(iter_meta, Loads(CurLine))
    /\ expect_src' = FALSE
    /\ lpos' = lpos + 1
    /\ UNCHANGED <<cmd, args, ndjson, nbytes, cliPc, buf, size, sent, iter_meta,
                   total, posted, resp, raised>>
    /\ UNCHANGED <<convVars, epubVars>>

\* The same, and to_update reaches the flush length: it is posted.
EmbedFlush ==
    /\ Yields
    /\ ~NotText(Get(Loads(CurLine), args.source_field, <<>>))
    /\ BatchFull(to_update \o EmbedPair(iter_meta, Loads(CurLine)))
    /\ yielded' = Append(yielded, [meta |-> iter_meta, src |-> Loads(CurLine)])
    /\ encoded' = Append(encoded, Get(Loads(CurLine), args.source_field, <<>>))
    /\ LET u1 == to_update \o EmbedPair(iter_meta, Loads(CurLine))
       IN \E r \in Responses(u1) :
            /\ posted' = Append(posted, u1)
            /\ resp' = r
            /\ raised' = BulkPost(r)
            /\ IF BulkPost(r) = NoError
                 THEN /\ total' = total + (Len(u1) \div 2)
                      /\ to_update' = <<>>
                      /\ cliPc' = "loop"
                 ELSE /\ total' = total
                      /\ to_update' = u1
                      /\ cliPc' = "failed"
    /\ expect_src' = FALSE
    /\ lpos' = lpos + 1
    /\ UNCHANGED <<cmd, args, ndjson, nbytes, buf, size, sent, iter_meta>>
    /\ UNCHANGED <<convVars, epubVars>>

\* After the loop a non-empty to_update is posted.
EmbedFinalFlush ==
    /\ cmd = "embed" /\ cliPc = "loop" /\ lpos = Len(ndjson)
    /\ to_update # <<>>
    /\ \E r \in Responses(to_update) :
         /\ posted' = Append(posted, to_update)
         /\ resp' = r
         /\ raised' = BulkPost(r)
         /\ IF BulkPost(r) = NoError
              THEN total' = total + (Len(to_update) \div 2) /\ cliPc' = "done"
              ELSE total' = total /\ cliPc' = "failed"
    /\ UNCHANGED <<cmd, args, ndjson, nbytes, lpos, buf, size, sent, expect_src,
                   iter_meta, to_update, yielded, encoded>>
    /\ UNCHANGED <<convVars, epubVars>>

\* After the loop with an empty to_update.
EmbedReturn ==
    /\ cmd = "embed" /\ cliPc = "loop" /\ lpos = Len(ndjson)
    /\ to_update = <<>>
    /\ cliPc' = "done"
    /\ UNCHANGED <<cmd, args, ndjson, nbytes, lpos, buf, size, sent, expect_src,
                   iter_meta, to_update, total, yielded, encoded, posted, resp,
                   raised>>
    /\ UNCHANGED <<convVars, epubVars>>

CliNext ==
    \/ BulkBlank
    \/ BulkAppend
    \/ BulkFlush
    \/ BulkFinalFlush
    \/ BulkReturn
    \/ LoadModel
    \/ LoadModelError
    \/ IterBlank
    \/ IterMeta
    \/ IterOrphan
    \/ EmbedSkip
    \/ EmbedAppend
    \/ EmbedFlush
    \/ EmbedFinalFlush
    \/ EmbedReturn

(***************************************************************************)
(* scripts/escli.py: main, and the NDJSON files it is run on               *)
(***************************************************************************)
\* The two streams convert_json_to_ndjson.py writes for a book.
StreamsOf(book_json) ==
    SplitActions(ToBulkActions(book_json, IndexBooks, IndexContent).actions, 0)

\* Action/source pairs of such streams: a book with a description, a book
\* with none (description ""), and two chunks.
BookPair == StreamsOf(FullBook(<<"b", "1">>, TwoChapters)).books
BarePair == StreamsOf(BareBook(<<"b", "2">>, <<>>)).books
ChunkPair == SubSeq(StreamsOf(FullBook(<<"b", "1">>, TwoChapters)).content, 1, 2)
ChunkPair2 == SubSeq(StreamsOf(FullBook(<<"b", "1">>, TwoChapters)).content, 3, 4)

\* The same records with the source field emptied or removed.
Emptied(pair, field) ==
    <<pair[1], Dumps(Put(Loads(pair[2]), field, <<>>))>>
Removed(pair, field) ==
    <<pair[1], Dumps(Del(Loads(pair[2]), field))>>

\* Files bulk_file is run on: up to MaxPairs pairs, the file of an empty
\* stream (one blank line), and files with a blank line at the end.
BulkPairs == {BookPair, ChunkPair}
PairFiles(pairs) == {Concat(ps) : ps \in SeqsUpTo(pairs, MaxPairs)}
BulkFiles ==
    PairFiles(BulkPairs)
    \cup {<<BlankLine>>}
    \cup {Concat(<<p, q>>) \o <<BlankLine>> : p, q \in BulkPairs}

\* Files embed_from_ndjson is run on, by source field: up to MaxPairs entries,
\* each a pair, a blank line, a source line without its action line, or an
\* action line without its source line.  IdChunkPair is a chunk of a stream
\* whose records carry their assigned ids.
IdChunkPair ==
    <<Dumps([index |-> [_index |-> IndexContent, _id |-> <<"k", "1">>]]),
      ChunkPair2[2]>>
EmbedEntries(field) ==
    IF field = "text"
      THEN {ChunkPair, ChunkPair2, IdChunkPair, Emptied(ChunkPair, field),
            Removed(ChunkPair, field), <<BlankLine>>, <<ChunkPair[2]>>,
            <<ChunkPair[1]>>}
      ELSE {BookPair, BarePair, Removed(BookPair, field), <<BlankLine>>,
            <<BookPair[2]>>, <<BookPair[1]>>}
EmbedFiles(field) == {Concat(es) : es \in SeqsUpTo(EmbedEntries(field), MaxPairs)}

\* The sizes in bytes of a file's lines.
LineBytes == {1, 2}

\* bulk: chunk_bytes (5 MiB by default) is tried from 1 to MaxChunkBytes
\* against lines of 1 or 2 bytes.
BulkArgs == {[chunk_bytes |-> n] : n \in 1..MaxChunkBytes}

\* embed-from-ndjson: the content stream and the books stream, each with and
\* without --index-override.
EmbedArgs ==
    {[source_field |-> "text", target_field |-> "text_vector",
      flush_len |-> n, model_ok |-> ok] :
        n \in {2, MaxFlushLen}, ok \in BOOLEAN}
    \cup {[source_field |-> "text", target_field |-> "text_vector",
           flush_len |-> n, model_ok |-> TRUE, index_override |-> "content_v2"] :
            n \in {2, MaxFlushLen}}
    \cup {[source_field |-> "description", target_field |-> "description_vector",
           flush_len |-> n, model_ok |-> TRUE] : n \in {2, MaxFlushLen}}
    \cup {[source_field |-> "description", target_field |-> "description_vector",
           flush_len |-> n, model_ok |-> TRUE, index_override |-> "books_v2"] :
            n \in {2, MaxFlushLen}}

CliInit ==
    /\ cmd \in {"bulk", "embed"}
    /\ args \in (IF cmd = "bulk" THEN BulkArgs ELSE EmbedArgs)
    /\ ndjson \in (IF cmd = "bulk" THEN BulkFiles
                   ELSE EmbedFiles(args.source_field))
    /\ nbytes \in (IF cmd = "bulk" THEN [1..Len(ndjson) -> LineBytes]
                   ELSE {[i \in 1..Len(ndjson) |-> 1]})
    /\ lpos = 0
    /\ cliPc = (IF cmd = "bulk" THEN "loop" ELSE "start")
    /\ buf = <<>>
    /\ size = 0
    /\ sent = 0
    /\ expect_src = FALSE
    /\ iter_meta = None
    /\ to_update = <<>>
    /\ total = 0
    /\ yielded = <<>>
    /\ encoded = <<>>
    /\ posted = <<>>
    /\ resp = NoResp
    /\ raised = NoError
    /\ ConvIdle
    /\ EpubIdle

SpecCli == CliInit /\ [][CliNext]_vars

(***************************************************************************)
(* Claims checked under SpecCli.                                           *)
(***************************************************************************)
\* A sequence of lines made of complete pairs: an even number of lines, an
\* action line at every odd place and a source line at every even place.
CompletePairs(lines) ==
    /\ Len(lines) % 2 = 0
    /\ \A i \in 1..Len(lines) : IsAction(lines[i]) <=> (i % 2 = 1)

\* C2: every request body posted to the bulk endpoint, by bulk_file run on a
\* file of well-formed pairs (whatever the line sizes and chunk_bytes) and by
\* embed_from_ndjson, is made of complete action/source pairs: an even number
\* of lines, every action line immediately followed by exactly one source line
\* of the same body.
C2_BodiesAreCompletePairs ==
    ((cmd = "bulk" /\ CompletePairs(NonBlank(ndjson))) \/ cmd = "embed")
        => \A b \in 1..Len(posted) : CompletePairs(posted[b])

\* The part of C2 about embed_from_ndjson alone.
EmbedBodiesAreCompletePairs ==
    cmd = "embed" => \A b \in 1..Len(posted) : CompletePairs(posted[b])

\* The places of the items of the last response that carry a non-null error
\* under their index or update key.
OffendingPlaces ==
    {i \in 1..Len(resp.items) :
        \E k \in {"index", "update"} :
            /\ k \in DOMAIN resp.items[i]
            /\ "error" \in DOMAIN resp.items[i][k]
            /\ resp.items[i][k].error # None}

\* C7: when the response to a posted body has an item with a non-null error
\* under its index or update key, _bulk_post raised one error, it carries the
\* first such item of the items list, and the run ended with it; when the
\* response has no such item, nothing was raised.
C7_FirstOffendingItemRaised ==
    resp.status = 200 =>
        IF OffendingPlaces = {}
          THEN raised = NoError /\ cliPc # "failed"
          ELSE /\ raised = [kind |-> "bulk",
                            item |-> resp.items[CHOOSE i \in OffendingPlaces :
                                          \A j \in OffendingPlaces : i <= j]]
               /\ cliPc = "failed"

\* A response with two different offending items, the first one raised.
C7_Witness ==
    /\ resp.status = 200
    /\ \E i, j \in OffendingPlaces : i < j /\ resp.items[i] # resp.items[j]
    /\ raised.kind = "bulk"
    /\ raised.item = resp.items[1]

\* The records yielded so far whose source field is non-empty.
HasText(rec) ==
    /\ args.source_field \in DOMAIN rec.src
    /\ rec.src[args.source_field] \notin {None, <<>>}
Embedded == SelectSeq(yielded, HasText)

\* Every line embed_from_ndjson has put into to_update so far: the bodies
\* posted and, inside the loop, the lines not yet posted (the final post and
\* an exception of _bulk_post leave the body just posted in to_update).
Emitted == IF cliPc = "loop" THEN Concat(posted) \o to_update ELSE Concat(posted)

\* C8: in embed_from_ndjson a record whose source field is empty or missing
\* adds no bulk action and causes no call of the embedding function, with and
\* without an _id; every record whose source field is non-empty adds exactly
\* one action pair (an update for a record with an _id, an index without) and
\* causes exactly one call, with its text.
C8_EmbeddingSkipRule ==
    cmd = "embed" =>
        /\ encoded = [i \in 1..Len(Embedded) |->
                         Embedded[i].src[args.source_field]]
        /\ Len(Emitted) = 2 * Len(Embedded)
        /\ \A i \in 1..Len(Embedded) :
             /\ IsAction(Emitted[2 * i - 1])
             /\ OpOf(Emitted[2 * i - 1]) =
                  (IF "_id" \in DOMAIN Embedded[i].meta.index
                     THEN "update" ELSE "index")
             /\ ~IsAction(Emitted[2 * i])

\* A finished run over a record with an empty source field and an _id and a
\* record with a text: one call, one pair.
C8_Witness ==
    /\ cmd = "embed" /\ cliPc = "done"
    /\ \E i \in 1..Len(yielded) :
         /\ ~HasText(yielded[i])
         /\ args.source_field \in DOMAIN yielded[i].src
         /\ "_id" \in DOMAIN yielded[i].meta.index
    /\ \E i \in 1..Len(yielded) : HasText(yielded[i])
    /\ Len(encoded) = 1
    /\ Len(Concat(posted)) = 2

(***************************************************************************)
(* The two ingest stages in sequence: epub_to_json.py writes the parsed    *)
(* location, convert_json_to_ndjson.py reads it.                           *)
(***************************************************************************)
\* The characters of the generated file names, in code point order.
NameOrder == <<"-", ".">> \o DigitChars \o UpperChars \o <<"_">> \o LowerChars

\* a < b for two names, as sorted() and the object listing order them.
RECURSIVE NameLess(_, _)
NameLess(a, b) ==
    IF a = <<>> THEN b # <<>>
    ELSE IF b = <<>> THEN FALSE
    ELSE IF a[1] = b[1] THEN NameLess(Tail(a), Tail(b))
    ELSE IndexIn(NameOrder, a[1]) < IndexIn(NameOrder, b[1])

\* The base names of the parsed location in the order of their file names
\* (base name + ".json").
RECURSIVE SortNames(_)
SortNames(S) ==
    IF S = {} THEN <<>>
    ELSE LET mn == CHOOSE x \in S :
                     \A y \in S \ {x} : NameLess(x \o <<".">>, y \o <<".">>)
         IN <<mn>> \o SortNames(S \ {mn})

\* convert_json_to_ndjson.py is started on the parsed location in the mode
\* epub_to_json.py wrote it: its iterator lists the JSON documents by name.
ConvertParsed ==
    /\ ePc = "done"
    /\ cPc = "idle"
    /\ LET names == SortNames(DOMAIN parsed)
       IN cFiles' = [i \in 1..Len(names) |-> JsonFile(parsed[names[i]])]
    /\ cMode' = eMode
    /\ cPos' = 0
    /\ cPc' = "loop"
    /\ cRun' = 1
    /\ UNCHANGED <<actions, books_lines, content_lines, out_books, out_content,
                   store>>
    /\ UNCHANGED <<epubVars, cliVars>>

PipelineNext ==
    \/ EpubSkipName
    \/ EpubReadError
    \/ EpubReadOk
    \/ EpubFinish
    \/ ConvertParsed
    \/ ProcessOk
    \/ WriteOutputs

\* Containers without structured metadata (title and author then come from
\* the file name): with the digest fallback, one identifier, or a marked
\* identifier after an unmarked one; a first content document without heading
\* and up to MaxParas paragraphs, and a second one with a heading.
PipelineIds ==
    {[uid |-> None, ids |-> <<>>],
     [uid |-> None, ids |-> <<[val |-> <<"x">>, id |-> None]>>],
     [uid |-> <<"u">>, ids |-> <<[val |-> <<"x">>, id |-> <<"v">>],
                                 [val |-> <<" ", "y">>, id |-> <<"u">>]>>],
     [uid |-> <<"u">>, ids |-> <<[val |-> <<>>, id |-> <<"u">>],
                                 [val |-> <<"x">>, id |-> None]>>]}
PipelineBooks ==
    {MkBook(c.uid, c.ids, NoMeta,
            <<DocItem(<<"c", "1">>, ps),
              DocItem(<<"c", "2">>, <<[tag |-> "h2", text |-> <<"H">>],
                                      Para(<<"r">>)>>)>>,
            bytes) :
        c \in PipelineIds,
        ps \in SeqsUpTo({Para(<<"p">>), Para(<<"q">>)}, MaxParas),
        bytes \in {<<"r">>, <<"s">>}}

\* The same container under two different file names, a container next to the
\* scenario container, and the inputs that are not read.
PipelineStems == {<<"a">>, <<"a", "-", "b">>, <<"B", "_", "c">>}
StemPairs == {sp \in PipelineStems \X PipelineStems : sp[1] # sp[2]}
PipelineBatches ==
    {<<Epub(sp[1], b), Epub(sp[2], b)>> : sp \in StemPairs, b \in PipelineBooks}
    \cup {<<Epub(sp[1], b), Epub(sp[2], ScenarioBook)>> :
            sp \in StemPairs, b \in PipelineBooks}
    \cup Unread

SpecPipeline ==
    /\ EpubInit(PipelineBatches, {"local", "s3"})
    /\ [][PipelineNext]_vars

(***************************************************************************)
(* Claims checked under SpecPipeline.                                      *)
(***************************************************************************)
\* The batch is one source read twice: same content, same identifiers, under
\* two file names.
SameSource ==
    /\ Len(eInputs) = 2
    /\ eInputs[1].ext = "epub" /\ eInputs[2].ext = "epub"
    /\ eInputs[1].book.parses
    /\ eInputs[1].book = eInputs[2].book

\* The chunk_id values of a content stream, in stream order.
ChunkIds(lines) == [k \in 1..(Len(lines) \div 2) |-> Loads(lines[2 * k]).chunk_id]

\* C11: two runs of the pipeline over the same source content and the same
\* structured identifiers, reading it under different file names, give the
\* same source_uid, the same book_id and the same ordered sequence of
\* chunk_id values.
C11_IdentityDeterministic ==
    SameSource =>
        /\ ePos = 2 =>
             LET one == parsed[eInputs[1].stem].fields
                 two == parsed[eInputs[2].stem].fields
             IN /\ one.source_uid = two.source_uid
                /\ one.book_id = two.book_id
        /\ cPos = 2 =>
             LET both == ChunkIds(content_lines)
                 second == ChunkIds(SplitActions(actions, 0).content)
             IN /\ Len(both) = 2 * Len(second)
                /\ SubSeq(both, 1, Len(second)) = second

\* Both runs are complete for a source without identifiers (the digest of its
\* bytes is its source_uid) and with at least two paragraphs; the titles,
\* taken from the file names, differ.
C11_Witness ==
    /\ SameSource
    /\ cPc = "done" /\ cPos = 2
    /\ eInputs[1].book.identifiers = <<>>
    /\ parsed[eInputs[1].stem].fields.title # parsed[eInputs[2].stem].fields.title
    /\ parsed[eInputs[1].stem].fields.source_uid = Sha1Hex(eInputs[1].book.bytes)
    /\ Len(out_content) >= 8

(***************************************************************************)
(* Claims checked under SpecCli: the embedding merge.                      *)
(***************************************************************************)
\* The pair a and d (decoded) is the merge of the record rec into the index
\* idx: without an _id a full index action without _id and the whole source
\* with the vector under the target field; with an _id an update action with
\* idx and that _id and a partial document holding the vector alone.
IsMergeOf(rec, a, d, idx) ==
    LET vec == Encode(rec.src[args.source_field])
    IN IF "_id" \notin DOMAIN rec.meta.index
         THEN /\ DOMAIN a = {"index"}
              /\ DOMAIN a.index = {"_index"}
              /\ a.index._index = idx
              /\ DOMAIN d = DOMAIN rec.src \cup {args.target_field}
              /\ \A k \in DOMAIN rec.src \ {args.target_field} : d[k] = rec.src[k]
              /\ d[args.target_field] = vec
         ELSE /\ DOMAIN a = {"update"}
              /\ DOMAIN a.update = {"_index", "_id"}
              /\ a.update._index = idx
              /\ a.update._id = rec.meta.index._id
              /\ DOMAIN d = {"doc"}
              /\ DOMAIN d.doc = {args.target_field}
              /\ d.doc[args.target_field] = vec

\* C12 as claimed: the pair of every record with a text is its merge, the
\* update action of a record with an _id carrying the record's own _index
\* (the claim leaves the _index of the index action open).
C12_MergeByIdAsClaimed ==
    cmd = "embed" =>
        \A i \in 1..Len(Embedded) :
            2 * i <= Len(Emitted) =>
                LET a == Loads(Emitted[2 * i - 1])
                IN IsMergeOf(Embedded[i], a, Loads(Emitted[2 * i]),
                             IF "_id" \in DOMAIN Embedded[i].meta.index
                                  \/ "index" \notin DOMAIN a
                               THEN Embedded[i].meta.index._index
                               ELSE a.index._index)

\* C12: embed_from_ndjson picks the action by whether the record has an
\* assigned id.  For a record with a text whose action line has no _id it
\* emits an index action without _id and the whole source document with the
\* vector added under the target field; for one whose action line has an _id
\* it emits an update action with that _id and a partial document
\* {"doc": {target_field: vector}} with no other field.  The _index of either
\* action is the --index-override value when one is given, else the record's.
C12_MergeById ==
    cmd = "embed" =>
        /\ Len(Emitted) = 2 * Len(Embedded)
        /\ \A i \in 1..Len(Embedded) :
             IsMergeOf(Embedded[i], Loads(Emitted[2 * i - 1]),
                       Loads(Emitted[2 * i]),
                       IF "index_override" \in DOMAIN args
                         THEN args.index_override
                         ELSE Embedded[i].meta.index._index)

\* A finished run with --index-override over a record without _id and a
\* record with one, both with a text: an index pair and an update pair posted.
C12_Witness ==
    /\ cmd = "embed" /\ cliPc = "done"
    /\ "index_override" \in DOMAIN args
    /\ Len(Embedded) = 2
    /\ "_id" \notin DOMAIN Embedded[1].meta.index
    /\ "_id" \in DOMAIN Embedded[2].meta.index
    /\ Len(Concat(posted)) = 4
    /\ OpOf(Concat(posted)[1]) = "index"
    /\ OpOf(Concat(posted)[3]) = "update"

(***************************************************************************)
(* Claims checked under SpecCli: the bodies bulk_file posts.               *)
(***************************************************************************)
IsPrefix(s, t) == Len(s) <= Len(t) /\ s = SubSeq(t, 1, Len(s))

\* C13: at every point of a bulk_file run the concatenation of the bodies
\* posted so far is a prefix of the file's non-blank lines in file order, and
\* equals all of them when bulk_file has returned normally; a post only adds
\* a body after the earlier ones, a post that raises ends the run, and after
\* it nothing more is posted.
C13_PostedIsPrefixOfFile ==
    /\ [](cmd = "bulk" =>
            /\ IsPrefix(Concat(posted), NonBlank(ndjson))
            /\ (cliPc = "done" => Concat(posted) = NonBlank(ndjson)))
    /\ [][cmd = "bulk" =>
            /\ IsPrefix(posted, posted')
            /\ Len(posted') <= Len(posted) + 1
            /\ (cliPc = "failed" => posted' = posted)
            /\ (posted' # posted /\ raised' # NoError => cliPc' = "failed")]_vars

\* bulk_file has returned after two posts or more, the last one a final
\* batch below chunk_bytes.
C13_Witness ==
    /\ cmd = "bulk" /\ cliPc = "done"
    /\ Len(posted) >= 2
    /\ size > 0 /\ size < args.chunk_bytes
    /\ Concat(posted) = NonBlank(ndjson)
    /\ Len(ndjson) > Len(NonBlank(ndjson))

====
